---------------------------- MODULE Spec2Model ----------------------------
(***************************************************************************)
(* Stroke-Risk-Prediction-WebApp: the feature pipeline of the Risk         *)
(* Assessment page, the attribution chart of the Results page and the      *)
(* banding of the Recommendations page, as one Streamlit session.          *)
(*                                                                         *)
(* numpy's float64 values are modelled as exact rationals <<n, d>> in      *)
(* lowest terms with d > 0; <<0, 0>> is NaN (0.0 / 0.0) and <<1, 0>>,      *)
(* <<-1, 0>> are the infinities (x / 0.0).                                 *)
(***************************************************************************)
EXTENDS Integers, Sequences, FiniteSets, TLC

(***************************************************************************)
(* Bounds of the model: how many stand-ins for the pickled classifier and  *)
(* for the SHAP explainer built from it are tried.                         *)
(***************************************************************************)
ClfVariants == 2
ExpVariants == 2

(***************************************************************************)
(* float64 arithmetic, as exact rationals                                  *)
(***************************************************************************)
Abs(n) == IF n < 0 THEN -n ELSE n

RECURSIVE GCD(_, _)
GCD(a, b) == IF b = 0 THEN a ELSE GCD(b, a % b)

Rat(n, d) ==
    IF d = 0 THEN <<(IF n > 0 THEN 1 ELSE IF n < 0 THEN -1 ELSE 0), 0>>
    ELSE LET g == GCD(Abs(n), Abs(d))
             s == IF d < 0 THEN -1 ELSE 1
         IN  <<(s * n) \div g, (s * d) \div g>>

NaN == <<0, 0>>
Zero == <<0, 1>>
IsFinite(x) == x[2] # 0

\* sums and products are reduced before they are multiplied out, so that the
\* intermediate integers stay small
LCD(x, y) == (x[2] \div GCD(x[2], y[2])) * y[2]
fadd(x, y) == IF IsFinite(x) /\ IsFinite(y)
              THEN LET l == LCD(x, y)
                   IN  Rat(x[1] * (l \div x[2]) + y[1] * (l \div y[2]), l)
              ELSE NaN
fsub(x, y) == IF IsFinite(x) /\ IsFinite(y)
              THEN LET l == LCD(x, y)
                   IN  Rat(x[1] * (l \div x[2]) - y[1] * (l \div y[2]), l)
              ELSE NaN
fmul(x, y) == IF IsFinite(x) /\ IsFinite(y)
              THEN LET a == Rat(x[1], y[2])
                       b == Rat(y[1], x[2])
                   IN  Rat(a[1] * b[1], a[2] * b[2])
              ELSE NaN
\* numpy division: 0/0 is nan and x/0 is +-inf, with a warning and no exception
fdiv(x, y) == IF ~(IsFinite(x) /\ IsFinite(y)) THEN NaN
              ELSE IF y[1] = 0 THEN Rat(x[1], 0)
              ELSE LET a == Rat(x[1], y[1])
                       b == Rat(y[2], x[2])
                   IN  Rat(a[1] * b[1], a[2] * b[2])
fabs(x) == <<Abs(x[1]), x[2]>>
flt(x, y) == IsFinite(x) /\ IsFinite(y) /\ x[1] * y[2] < y[1] * x[2]
fle(x, y) == IsFinite(x) /\ IsFinite(y) /\ x[1] * y[2] <= y[1] * x[2]

RECURSIVE fsum(_)
fsum(xs) == IF xs = <<>> THEN Zero ELSE fadd(Head(xs), fsum(Tail(xs)))

(***************************************************************************)
(* The form of the Risk Assessment page                                    *)
(***************************************************************************)
PLACEHOLDER == "Select option"
AGE_MIN == 18
AGE_MAX == 100
GLUCOSE_MIN == 55
GLUCOSE_MAX == 300

\* the mutant of Glucoses: the max_value=400.0 of the page's other variant
Glucoses_to_400 == {Rat(GLUCOSE_MIN, 1), Rat(110, 1), Rat(400, 1)}

\* the mutant of Ages: a max_value of 120
Ages_to_120 == {AGE_MIN, 45, 120}

\* the values the model enters in the two number inputs
Ages == {AGE_MIN, 45, AGE_MAX}
Glucoses == {Rat(GLUCOSE_MIN, 1), Rat(110, 1), Rat(GLUCOSE_MAX, 1)}

gender_options == {PLACEHOLDER, "Male", "Female"}
ever_married_options == {PLACEHOLDER, "Yes", "No"}
work_type_options == {PLACEHOLDER, "Private", "Self-employed", "Govt_job", "Never_worked"}
hypertension_options == {PLACEHOLDER, "Yes", "No"}
heart_disease_options == {PLACEHOLDER, "Yes", "No"}
smoking_status_options == {PLACEHOLDER, "never smoked", "formerly smoked", "smokes"}

CategoricalFields ==
    {"gender", "ever_married", "work_type", "hypertension", "heart_disease", "smoking_status"}

\* every way the form can be filled in
Forms ==
    [age : Ages, avg_glucose_level : Glucoses,
     gender : gender_options, ever_married : ever_married_options,
     work_type : work_type_options, hypertension : hypertension_options,
     heart_disease : heart_disease_options, smoking_status : smoking_status_options,
     consent : BOOLEAN]

\* the widgets as Streamlit first renders them: value=18, value=55.0, the first
\* option of every selectbox and radio, the checkbox unchecked
WidgetDefaults ==
    [age |-> AGE_MIN, avg_glucose_level |-> Rat(GLUCOSE_MIN, 1),
     gender |-> PLACEHOLDER, ever_married |-> PLACEHOLDER, work_type |-> PLACEHOLDER,
     hypertension |-> PLACEHOLDER, heart_disease |-> PLACEHOLDER,
     smoking_status |-> PLACEHOLDER, consent |-> FALSE]

\* the filled-in form of the design document's end-to-end scenario
SCENARIO ==
    [age |-> 45, avg_glucose_level |-> Rat(110, 1), heart_disease |-> "No",
     hypertension |-> "No", ever_married |-> "Yes", smoking_status |-> "never smoked",
     work_type |-> "Private", gender |-> "Female", consent |-> TRUE]

\* the forms a user fills in one after the other in the model of repeated
\* submissions: the scenario, a second patient, and the scenario with the
\* consent box unchecked or with one selectbox left alone
SECOND_PATIENT ==
    [age |-> AGE_MAX, avg_glucose_level |-> Rat(GLUCOSE_MAX, 1), heart_disease |-> "Yes",
     hypertension |-> "Yes", ever_married |-> "No", smoking_status |-> "smokes",
     work_type |-> "Govt_job", gender |-> "Male", consent |-> TRUE]

SessionForms ==
    { SCENARIO, SECOND_PATIENT,
      [SCENARIO EXCEPT !.consent = FALSE],
      [SCENARIO EXCEPT !.work_type = PLACEHOLDER] }

(***************************************************************************)
(* Risk_Assessment.py: encoding maps, add_poly, scaler constants           *)
(***************************************************************************)
heart_map == ("Yes" :> 1) @@ ("No" :> 0)
htn_map == ("Yes" :> 1) @@ ("No" :> 0)
married_map == ("Yes" :> 1) @@ ("No" :> 0)
smoke_map == ("never smoked" :> 0) @@ ("formerly smoked" :> 1) @@ ("smokes" :> 2)
work_map == ("Private" :> 0) @@ ("Self-employed" :> 1) @@ ("Govt_job" :> 2) @@ ("Never_worked" :> 3)
gender_map == ("Male" :> 0) @@ ("Female" :> 1)

\* the mutant of unresolved: smoking_status left out of the list that is tested
unresolved_without_smoking(w) ==
    \E f \in CategoricalFields \ {"smoking_status"} : w[f] = PLACEHOLDER

\* any(val == "Select option" for val in [gender, ever_married, work_type,
\*                                        hypertension, heart_disease, smoking_status])
unresolved(w) ==
    \E f \in CategoricalFields : w[f] = PLACEHOLDER

\* a dict lookup raises KeyError for a value that is no key of the dict
raises_KeyError_Risk_Assessment(w) ==
    \/ w.heart_disease \notin DOMAIN heart_map
    \/ w.hypertension \notin DOMAIN htn_map
    \/ w.ever_married \notin DOMAIN married_map
    \/ w.smoking_status \notin DOMAIN smoke_map
    \/ w.work_type \notin DOMAIN work_map
    \/ w.gender \notin DOMAIN gender_map

\* the mutant of raw_Risk_Assessment: two neighbouring positions exchanged
raw_Risk_Assessment_swapped(w) ==
    << Rat(w.age, 1),
       w.avg_glucose_level,
       Rat(heart_map[w.heart_disease], 1),
       Rat(htn_map[w.hypertension], 1),
       Rat(married_map[w.ever_married], 1),
       Rat(work_map[w.work_type], 1),
       Rat(smoke_map[w.smoking_status], 1),
       Rat(gender_map[w.gender], 1) >>

\* raw = [age, avg_glucose_level, heart_map[...], ..., gender_map[gender]];
\* np.array(raw) makes every element a float64
raw_Risk_Assessment(w) ==
    << Rat(w.age, 1),
       w.avg_glucose_level,
       Rat(heart_map[w.heart_disease], 1),
       Rat(htn_map[w.hypertension], 1),
       Rat(married_map[w.ever_married], 1),
       Rat(smoke_map[w.smoking_status], 1),
       Rat(work_map[w.work_type], 1),
       Rat(gender_map[w.gender], 1) >>

\* the mutant of add_poly: the derived columns in engineer_feats' order
add_poly_feats_order(X) ==
    LET age == X[1]
        glu == X[2]
    IN  X \o << fmul(age, age), fmul(glu, glu), fmul(age, glu) >>

add_poly(X) ==
    LET age == X[1]
        glu == X[2]
        age_sq == fmul(age, age)
        inter == fmul(age, glu)
        glu_sq == fmul(glu, glu)
    IN  X \o << age_sq, inter, glu_sq >>

\* the mutant of SCALER_SCALE: a constant column, whose fitted scale is 0
SCALER_SCALE_constant_column ==
    << Rat(156753, 10000), Rat(268145, 10000), Rat(2141, 10000), Zero,
       Rat(4974, 10000), Rat(4983, 10000), Rat(9082, 10000), Rat(4999, 10000),
       Rat(297841, 100), Rat(614478, 100), Rat(107956, 10) >>

SCALER_MEAN ==
    << Rat(474572, 10000), Rat(1061478, 10000), Rat(482, 10000), Rat(513, 10000),
       Rat(5527, 10000), Rat(5431, 10000), Rat(21356, 10000), Rat(5064, 10000),
       Rat(185037, 100), Rat(506784, 100), Rat(116452, 10) >>
SCALER_SCALE ==
    << Rat(156753, 10000), Rat(268145, 10000), Rat(2141, 10000), Rat(2206, 10000),
       Rat(4974, 10000), Rat(4983, 10000), Rat(9082, 10000), Rat(4999, 10000),
       Rat(297841, 100), Rat(614478, 100), Rat(107956, 10) >>

\* the mutant of broadcastable: a shorter row paired with the leading constants
broadcastable_shorter(a, b) == Len(a) <= Len(b)

\* numpy's broadcasting of a (1, n) array with an (m,) array: their last
\* dimensions are equal or one of them is 1; otherwise ValueError
broadcastable(a, b) == Len(a) = Len(b) \/ Len(a) = 1 \/ Len(b) = 1

\* X_scaled = (X_poly - SCALER_MEAN) / SCALER_SCALE, for a row as long as the
\* tables (a row of length 1 cannot come from add_poly)
standardize(X, mean, scale) ==
    [i \in 1..Len(X) |-> fdiv(fsub(X[i], mean[i]), scale[i])]

(***************************************************************************)
(* Results.py: its own copies of add_poly and of the scaler constants, and *)
(* the encoding it rebuilds the vector with                                *)
(***************************************************************************)
add_poly_Results(X) ==
    LET age == X[1]
        glu == X[2]
        age_sq == fmul(age, age)
        inter == fmul(age, glu)
        glu_sq == fmul(glu, glu)
    IN  X \o << age_sq, inter, glu_sq >>

\* the mutant of SCALER_MEAN_Results: one constant of a retrained scaler
SCALER_MEAN_Results_retrained ==
    << Rat(474572, 10000), Rat(1061478, 10000),
       Rat(482, 10000), Rat(513, 10000),
       Rat(5527, 10000), Rat(5431, 10000),
       Rat(21356, 10000), Rat(5064, 10000),
       Rat(185037, 100), Rat(506784, 100), Rat(116453, 10) >>

SCALER_MEAN_Results ==
    << Rat(474572, 10000), Rat(1061478, 10000),
       Rat(482, 10000), Rat(513, 10000),
       Rat(5527, 10000), Rat(5431, 10000),
       Rat(21356, 10000), Rat(5064, 10000),
       Rat(185037, 100), Rat(506784, 100), Rat(116452, 10) >>
SCALER_SCALE_Results ==
    << Rat(156753, 10000), Rat(268145, 10000),
       Rat(2141, 10000), Rat(2206, 10000),
       Rat(4974, 10000), Rat(4983, 10000),
       Rat(9082, 10000), Rat(4999, 10000),
       Rat(297841, 100), Rat(614478, 100), Rat(107956, 10) >>

smoking_codes_Results == ("formerly smoked" :> 0) @@ ("smokes" :> 2) @@ ("never smoked" :> 1)
work_codes_Results == ("Private" :> 2) @@ ("Govt_job" :> 0) @@ ("Self-employed" :> 3) @@ ("Never_worked" :> 1)
\* the mutant of gender_codes_Results: the codes of the submission's gender_map
gender_codes_Results_as_submitted == ("Male" :> 0) @@ ("Female" :> 1)
gender_codes_Results == ("Male" :> 1) @@ ("Female" :> 0)

raises_KeyError_Results(UD) ==
    \/ UD.smoking_status \notin DOMAIN smoking_codes_Results
    \/ UD.work_type \notin DOMAIN work_codes_Results
    \/ UD.gender \notin DOMAIN gender_codes_Results

raw_Results(UD) ==
    << Rat(UD.age, 1),
       UD.avg_glucose_level,
       Rat(IF UD.heart_disease = "Yes" THEN 1 ELSE 0, 1),
       Rat(IF UD.hypertension = "Yes" THEN 1 ELSE 0, 1),
       Rat(IF UD.ever_married = "Yes" THEN 1 ELSE 0, 1),
       Rat(smoking_codes_Results[UD.smoking_status], 1),
       Rat(work_codes_Results[UD.work_type], 1),
       Rat(gender_codes_Results[UD.gender], 1) >>

\* vals = np.abs(shap_vals[:8])
abs_first8(shap_vals) == [i \in 1..8 |-> fabs(shap_vals[i])]

\* the mutant of normalize: the "* prob" forgotten
normalize_to_one(vals, prob) ==
    [i \in 1..Len(vals) |-> fdiv(vals[i], fsum(vals))]

\* contrib = vals / vals.sum() * prob
normalize(vals, prob) ==
    [i \in 1..Len(vals) |-> fmul(fdiv(vals[i], fsum(vals)), prob)]

\* y = contrib * 100
percent(xs) == [i \in 1..Len(xs) |-> fmul(xs[i], Rat(100, 1))]

feature_names ==
    << "Age", "Avg Glucose", "Heart Disease", "Hypertension",
       "Ever Married", "Smoking Status", "Work Type", "Gender" >>

(***************************************************************************)
(* feutils.py: engineer_feats.  A DataFrame is the sequence of its columns *)
(* <<name, values>>, in column order.                                      *)
(***************************************************************************)
HasColumn(df, name) == \E i \in DOMAIN df : df[i][1] = name

\* df[name]
getitem(df, name) == df[CHOOSE i \in DOMAIN df : df[i][1] = name][2]

\* df[name] = values: a column of that name is replaced where it stands, a
\* new name is appended as the last column
setitem(df, name, values) ==
    IF HasColumn(df, name)
    THEN [i \in DOMAIN df |-> IF df[i][1] = name THEN <<name, values>> ELSE df[i]]
    ELSE Append(df, <<name, values>>)

\* a * b of two columns, row by row
column_mul(a, b) == [i \in DOMAIN a |-> fmul(a[i], b[i])]

\* the mutant of engineer_feats: the "df = df.copy()" left out, so that the
\* assignments go to the caller's table
engineer_feats_in_place(df) ==
    LET df1 == setitem(df, "age_sq", column_mul(getitem(df, "age"), getitem(df, "age")))
        df2 == setitem(df1, "glucose_sq",
                       column_mul(getitem(df1, "avg_glucose_level"),
                                  getitem(df1, "avg_glucose_level")))
        df3 == setitem(df2, "age_glucose",
                       column_mul(getitem(df2, "age"), getitem(df2, "avg_glucose_level")))
    IN  [caller |-> df3, returned |-> df3]

\* engineer_feats(df): the caller's table after the call, and the table returned
engineer_feats(df) ==
    LET copy == df
        df1 == setitem(copy, "age_sq", column_mul(getitem(copy, "age"), getitem(copy, "age")))
        df2 == setitem(df1, "glucose_sq",
                       column_mul(getitem(df1, "avg_glucose_level"),
                                  getitem(df1, "avg_glucose_level")))
        df3 == setitem(df2, "age_glucose",
                       column_mul(getitem(df2, "age"), getitem(df2, "avg_glucose_level")))
    IN  [caller |-> df, returned |-> df3]

(***************************************************************************)
(* best_gb_model.pkl and the TreeExplainer built from it: opaque, fixed    *)
(* for the life of the process.  Each stand-in is a deterministic function *)
(* of the standardized vector.                                             *)
(***************************************************************************)
Probabilities ==
    << Zero, Rat(2999, 10000), Rat(3, 10), Rat(6999, 10000), Rat(7, 10), Rat(1, 1) >>

Attributions ==
    << << Rat(1, 2), Rat(-1, 4), Zero, Rat(1, 8), Rat(-1, 8), Rat(1, 4), Zero, Rat(-1, 2),
          Rat(3, 10), Rat(-1, 5), Rat(1, 10) >>,
       << Zero, Zero, Zero, Zero, Zero, Zero, Zero, Zero,
          Rat(1, 2), Rat(-1, 4), Rat(1, 8) >>,
       << Rat(1, 10), Rat(1, 5), Rat(1, 20), Zero, Zero, Rat(1, 4), Rat(1, 10), Rat(1, 20),
          Zero, Zero, Zero >> >>

RECURSIVE mix(_, _)
mix(X, w) == IF X = <<>> THEN 0 ELSE w * Head(X)[1] + Head(X)[2] + mix(Tail(X), w + 1)

\* model.predict_proba(X_scaled)[0, 1]
predict_proba(m, X) == Probabilities[((mix(X, 1) + m) % Len(Probabilities)) + 1]

\* explainer.shap_values(X_scaled), the row of the one sample
shap_values(e, X) == Attributions[((mix(X, 3) + e) % Len(Attributions)) + 1]

(***************************************************************************)
(* Risk_Assessment.py 105-108: from the raw row to the probability         *)
(***************************************************************************)
\* X_raw = np.array(raw).reshape(1, -1); X_poly = add_poly(X_raw)
\* X_scaled = (X_poly - SCALER_MEAN) / SCALER_SCALE
\* prob = model.predict_proba(X_scaled)[0, 1]
predict(m, raw) ==
    LET X_raw == raw
        X_poly == add_poly(X_raw)
    IN  IF ~(broadcastable(X_poly, SCALER_MEAN) /\ broadcastable(X_poly, SCALER_SCALE))
        THEN [exception |-> "ValueError", X_poly |-> X_poly, X_scaled |-> <<>>,
              classifier_calls |-> 0, prob |-> <<>>]
        ELSE LET X_scaled == standardize(X_poly, SCALER_MEAN, SCALER_SCALE)
             IN  [exception |-> "", X_poly |-> X_poly, X_scaled |-> X_scaled,
                  classifier_calls |-> 1, prob |-> predict_proba(m, X_scaled)]


(***************************************************************************)
(* Recommendations.py: the band of a risk score and its text               *)
(***************************************************************************)
\* the mutant of recommendation_band: "<=" for "<" at the thresholds
recommendation_band_le(risk_score) ==
    IF risk_score = Zero THEN "Zero"
    ELSE IF fle(risk_score, Rat(30, 1)) THEN "Low"
    ELSE IF fle(risk_score, Rat(70, 1)) THEN "Moderate"
    ELSE "High"

\* the mutant of recommendation_band: the last two blocks exchanged
recommendation_band_swapped(risk_score) ==
    IF risk_score = Zero THEN "Zero"
    ELSE IF flt(risk_score, Rat(30, 1)) THEN "Low"
    ELSE IF flt(risk_score, Rat(70, 1)) THEN "High"
    ELSE "Moderate"

recommendation_band(risk_score) ==
    IF risk_score = Zero THEN "Zero"
    ELSE IF flt(risk_score, Rat(30, 1)) THEN "Low"
    ELSE IF flt(risk_score, Rat(70, 1)) THEN "Moderate"
    ELSE "High"

recommendation_block(band) ==
    CASE band = "Zero" ->
           << "Incredible! Your calculated stroke risk is 0.00%.",
              "Continue your current healthy lifestyle habits.",
              "Maintain balanced diet, regular exercise, and stress management.",
              "Keep up routine health checkups to stay on track." >>
      [] band = "Low" ->
           << "You have a low risk. Keep up the good work!",
              "Keep up with regular health checkups.",
              "Maintain a balanced diet and exercise.",
              "Avoid smoking and manage stress effectively." >>
      [] band = "Moderate" ->
           << "You are at moderate risk. Take proactive steps to lower it.",
              "Monitor and manage blood pressure and glucose levels.",
              "Limit alcohol intake and avoid smoking.",
              "Consider lifestyle modifications like increasing physical activity." >>
      [] band = "High" ->
           << "You are at high risk. Please take immediate action.",
              "Seek medical advice for detailed cardiovascular assessment.",
              "Take prescribed medications if necessary (e.g., antihypertensives).",
              "Adopt a strict healthy diet and consistent physical activity routine.",
              "Completely avoid tobacco products and excessive alcohol." >>

(***************************************************************************)
(* The state of one browser session of the running app                     *)
(***************************************************************************)
VARIABLES
    model,           \* load_model()'s cached artifact: which stand-in classifier
    explainer,       \* load_explainer()'s cache: <<>> until Results.py first runs
    widgets,         \* the values of the form's widgets
    session_state,   \* st.session_state: the keys user_data and prediction_prob
    page,            \* the page the session is on
    run,             \* what the last script run computed and put on screen
    predicted_from,  \* the X_scaled the classifier was given for prediction_prob
    cache_resource,  \* the functions whose result st.cache_resource holds
    joblib_loads,    \* how often best_gb_model.pkl has been read by joblib.load
    history,         \* what each successful submission of a tracked input gave
    artifact_readable, \* whether joblib.load can read best_gb_model.pkl now
    feutils          \* a caller's table and what engineer_feats returned for it

vars == <<model, explainer, widgets, session_state, page, run, predicted_from,
          cache_resource, joblib_loads, history, artifact_readable, feutils>>

Pages == {"Risk_Assessment", "Results", "Recommendations"}

CONSENT_ERROR == "You must agree to the terms before proceeding!"
FIELDS_ERROR == "Please complete all fields with valid values before submitting."
NO_INPUT_WARNING == "No input data found. Please complete the Risk Assessment first."
NO_SCORE_WARNING == "No stroke risk score found. Please complete the assessment first."

\* a script that has not run yet, or a run that showed nothing but the page frame
NoRun ==
    [script |-> "none", button |-> FALSE, error |-> "", warning |-> "", exception |-> "",
     raw |-> <<>>, X_poly |-> <<>>, X_scaled |-> <<>>, classifier_calls |-> 0,
     prob |-> <<>>, pct |-> <<>>, shap_vals |-> <<>>, contrib |-> <<>>,
     bar_x |-> <<>>, bar_y |-> <<>>, gauge |-> <<>>, band |-> "", recs |-> <<>>]

Ran(script) == [NoRun EXCEPT !.script = script]

Has(key) == key \in DOMAIN session_state

(***************************************************************************)
(* The two tests of the button handler                                     *)
(***************************************************************************)
\* the mutant of validation_error: the consent test left out
validation_error_without_consent(w) ==
    IF unresolved(w) THEN FIELDS_ERROR ELSE ""

\* the mutant of validation_error: the two tests in the other order
validation_error_fields_first(w) ==
    IF unresolved(w) THEN FIELDS_ERROR
    ELSE IF ~w.consent THEN CONSENT_ERROR
    ELSE ""

\* if not st.session_state.consent: st.error(...)
\* elif any(val == "Select option" for val in [...]): st.error(...)
\* the message shown, "" when the press is accepted
validation_error(w) ==
    IF ~w.consent THEN CONSENT_ERROR
    ELSE IF unresolved(w) THEN FIELDS_ERROR
    ELSE ""

(***************************************************************************)
(* st.session_state and st.cache_resource                                  *)
(***************************************************************************)
\* st.session_state.user_data = {"age": age, ..., "smoking_status": smoking_status}
user_data_of(w) == [f \in DOMAIN w \ {"consent"} |-> w[f]]

\* the mutant of save_session: prediction_prob written only if it is not there yet
save_session_keep_prob(old, user_data, prob) ==
    ("user_data" :> user_data) @@ old @@ ("prediction_prob" :> prob)

\* the mutant of save_session: user_data written only if it is not there yet
save_session_keep_user_data(old, user_data, prob) ==
    ("prediction_prob" :> prob) @@ old @@ ("user_data" :> user_data)

\* the mutant of save_session: the assignment of user_data left out
save_session_without_user_data(old, user_data, prob) ==
    ("prediction_prob" :> prob) @@ old

\* st.session_state.user_data = {...}; st.session_state.prediction_prob = prob
save_session(old, user_data, prob) ==
    ("user_data" :> user_data) @@ ("prediction_prob" :> prob) @@ old

\* Python's None
None == <<>>

\* the mutant of session_get: a default of 0.0 for a key that is absent
session_get_default_zero(session, key) ==
    IF key \in DOMAIN session THEN session[key] ELSE Zero

\* st.session_state.get(key)
session_get(session, key) ==
    IF key \in DOMAIN session THEN session[key] ELSE None

\* @st.cache_resource: the body of a function runs when its result is not cached
cache_miss(cache, function) == function \notin cache

\* joblib.load raises this when best_gb_model.pkl is not there
LOAD_ERROR == "FileNotFoundError"

\* the mutant of load_fails: a fallback model stands in for the missing one
load_fails_never(cache, function, readable) == FALSE

\* load_model() raises when its body runs and joblib.load cannot read the file;
\* st.cache_resource stores no result then
load_fails(cache, function, readable) == cache_miss(cache, function) /\ ~readable

\* the form's widgets and button are on screen: Risk_Assessment.py ran past
\* its load_model()
FormOnScreen == run.script = "Risk_Assessment" /\ run.exception # LOAD_ERROR

\* Bound of the model: how many successful submissions the history follows
MaxSubmissions == 3

\* the inputs whose submissions the history follows
TrackedInputs == {user_data_of(w) : w \in {SCENARIO, SECOND_PATIENT}}

\* the history after a successful submission: its input, whether the session
\* held an earlier result, its vectors and the probability the session holds
\* after it; shown and contrib are filled in by Results.py
record_submission(h, resubmission, user_data, X_poly, X_scaled, stored_prob) ==
    IF user_data \in TrackedInputs /\ Len(h) < MaxSubmissions
    THEN Append(h, [input |-> user_data, resubmission |-> resubmission,
                    X_poly |-> X_poly, X_scaled |-> X_scaled,
                    prob |-> stored_prob, shown |-> <<>>, contrib |-> <<>>])
    ELSE h

\* the history after Results.py has shown the session's result
record_results(h, UD, prob, contrib) ==
    IF h # <<>> /\ h[Len(h)].input = UD /\ h[Len(h)].contrib = <<>>
    THEN [h EXCEPT ![Len(h)].shown = prob, ![Len(h)].contrib = contrib]
    ELSE h

\* engineer_feats has not been called
NoCall == [given |-> <<>>, df |-> <<>>, returned |-> <<>>]

\* the form is open and filled in; nothing has been submitted in the session
Init ==
    /\ model \in 0..(ClfVariants - 1)
    /\ explainer = <<>>
    /\ widgets \in Forms
    /\ session_state = <<>>
    /\ page = "Risk_Assessment"
    /\ run = Ran("Risk_Assessment")
    /\ predicted_from = <<>>
    /\ cache_resource = {"Risk_Assessment.load_model"}
    /\ joblib_loads = 1
    /\ history = <<>>
    /\ artifact_readable = TRUE
    /\ feutils = NoCall

(***************************************************************************)
(* Risk_Assessment.py: one run of the script, with the "Calculate Stroke   *)
(* Risk" button pressed or not                                             *)
(***************************************************************************)
Risk_Assessment_py(button) ==
    /\ page = "Risk_Assessment"
    /\ button => FormOnScreen
    /\ IF load_fails(cache_resource, "Risk_Assessment.load_model", artifact_readable)
       THEN \* model = load_model() raises: the script ends at its top, before
            \* the form is drawn
            /\ run' = [Ran("Risk_Assessment") EXCEPT !.button = button, !.exception = LOAD_ERROR]
            /\ UNCHANGED <<session_state, page, predicted_from, history,
                           cache_resource, joblib_loads>>
       ELSE \* model = load_model(), at the top of the script
            /\ cache_resource' = cache_resource \cup {"Risk_Assessment.load_model"}
            /\ joblib_loads' = IF cache_miss(cache_resource, "Risk_Assessment.load_model")
                               THEN joblib_loads + 1 ELSE joblib_loads
            /\ IF ~button
               THEN /\ run' = Ran("Risk_Assessment")
                    /\ UNCHANGED <<session_state, page, predicted_from, history>>
               ELSE IF validation_error(widgets) # ""
               THEN /\ run' = [Ran("Risk_Assessment") EXCEPT
                                  !.button = TRUE, !.error = validation_error(widgets)]
                    /\ UNCHANGED <<session_state, page, predicted_from, history>>
               ELSE IF raises_KeyError_Risk_Assessment(widgets)
               THEN \* the exception ends the script run; Streamlit shows the traceback
                    /\ run' = [Ran("Risk_Assessment") EXCEPT
                                  !.button = TRUE, !.exception = "KeyError"]
                    /\ UNCHANGED <<session_state, page, predicted_from, history>>
               ELSE LET raw == raw_Risk_Assessment(widgets)
                        p == predict(model, raw)
                    IN  IF p.exception # ""
                        THEN /\ run' = [Ran("Risk_Assessment") EXCEPT
                                           !.button = TRUE, !.raw = raw, !.X_poly = p.X_poly,
                                           !.exception = p.exception]
                             /\ UNCHANGED <<session_state, page, predicted_from, history>>
                        ELSE LET X_poly == p.X_poly
                                 X_scaled == p.X_scaled
                                 prob == p.prob
                                 user_data == user_data_of(widgets)
                                 saved == save_session(session_state, user_data, prob)
                             IN  /\ session_state' = saved
                                 /\ predicted_from' = X_scaled
                                 /\ history' = record_submission(
                                                  history, Has("user_data"), user_data,
                                                  X_poly, X_scaled, saved["prediction_prob"])
                                 /\ run' = [Ran("Risk_Assessment") EXCEPT
                                               !.button = TRUE, !.raw = raw,
                                               !.X_poly = X_poly, !.X_scaled = X_scaled,
                                               !.classifier_calls = p.classifier_calls,
                                               !.prob = prob]
                                 /\ page' = "Results"
    /\ UNCHANGED <<model, explainer, widgets, artifact_readable, feutils>>

(***************************************************************************)
(* Results.py: one run of the script                                       *)
(***************************************************************************)
Results_py ==
    /\ page = "Results"
    /\ IF load_fails(cache_resource, "Results.load_model", artifact_readable)
       THEN \* model = load_model() raises: the script ends at its top
            /\ run' = [Ran("Results") EXCEPT !.exception = LOAD_ERROR]
            /\ UNCHANGED <<explainer, history, cache_resource, joblib_loads>>
       ELSE \* model = load_model(); explainer = load_explainer(model), at the top
            \* of the script: Results.py's load_model is a function of its own,
            \* so that the result cached for Risk_Assessment.py's load_model is
            \* not the one looked up
            /\ cache_resource' =
                  cache_resource \cup {"Results.load_model", "Results.load_explainer"}
            /\ joblib_loads' = IF cache_miss(cache_resource, "Results.load_model")
                               THEN joblib_loads + 1 ELSE joblib_loads
            /\ \E e \in 0..(ExpVariants - 1) :
                  /\ explainer \in {<<>>, <<e>>}
                  /\ explainer' = <<e>>
                  /\ IF ~(Has("user_data") /\ Has("prediction_prob"))
                     THEN /\ run' = [Ran("Results") EXCEPT !.warning = NO_INPUT_WARNING]
                          /\ UNCHANGED history
                     ELSE IF raises_KeyError_Results(session_state["user_data"])
                     THEN /\ run' = [Ran("Results") EXCEPT
                                        !.prob = session_state["prediction_prob"],
                                        !.pct = fmul(session_state["prediction_prob"],
                                                     Rat(100, 1)),
                                        !.exception = "KeyError"]
                          /\ UNCHANGED history
                     ELSE LET prob == session_state["prediction_prob"]
                              pct == fmul(prob, Rat(100, 1))
                              UD == session_state["user_data"]
                              raw == raw_Results(UD)
                              X_raw == raw
                              X_poly == add_poly_Results(X_raw)
                              X_scaled == standardize(X_poly, SCALER_MEAN_Results,
                                                      SCALER_SCALE_Results)
                              shap_vals == shap_values(e, X_scaled)
                              vals == abs_first8(shap_vals)
                              contrib == normalize(vals, prob)
                          IN  /\ run' = [Ran("Results") EXCEPT
                                            !.raw = raw, !.X_poly = X_poly,
                                            !.X_scaled = X_scaled,
                                            !.prob = prob, !.pct = pct,
                                            !.shap_vals = shap_vals,
                                            !.contrib = contrib, !.bar_x = feature_names,
                                            !.bar_y = percent(contrib), !.gauge = pct]
                              /\ history' = record_results(history, UD, prob, contrib)
    /\ UNCHANGED <<model, widgets, session_state, page, predicted_from,
                   artifact_readable, feutils>>

\* "Back to Assessment": st.switch_page("pages/Risk_Assessment.py").  The form's
\* widgets were not drawn by Results.py, so Streamlit has dropped their values.
BackToAssessment ==
    /\ page = "Results" /\ run.script = "Results"
    /\ run.warning = "" /\ run.exception = ""
    /\ page' = "Risk_Assessment"
    /\ widgets' = WidgetDefaults
    /\ run' = NoRun
    /\ UNCHANGED <<model, explainer, session_state, predicted_from,
                   cache_resource, joblib_loads, history,
                   artifact_readable, feutils>>

\* "Recommendations": st.switch_page("pages/Recommendations.py")
GoToRecommendations ==
    /\ page = "Results" /\ run.script = "Results"
    /\ run.warning = "" /\ run.exception = ""
    /\ page' = "Recommendations"
    /\ run' = NoRun
    /\ UNCHANGED <<model, explainer, widgets, session_state, predicted_from,
                   cache_resource, joblib_loads, history,
                   artifact_readable, feutils>>

(***************************************************************************)
(* Recommendations.py: one run of the script                               *)
(***************************************************************************)
Recommendations_py ==
    /\ page = "Recommendations"
    /\ LET risk_prob == session_get(session_state, "prediction_prob")
       IN  IF risk_prob = None
           THEN \* st.warning, st.page_link, st.stop()
                run' = [Ran("Recommendations") EXCEPT !.warning = NO_SCORE_WARNING]
           ELSE LET risk_score == fmul(risk_prob, Rat(100, 1))
                    band == recommendation_band(risk_score)
                IN  run' = [Ran("Recommendations") EXCEPT
                               !.prob = risk_prob, !.pct = risk_score,
                               !.band = band, !.recs = recommendation_block(band)]
    /\ UNCHANGED <<model, explainer, widgets, session_state, page, predicted_from,
                   cache_resource, joblib_loads, history,
                   artifact_readable, feutils>>

\* st.page_link("pages/Risk_Assessment.py"): "Go to Risk Assessment", "Reassess Risk"
Reassess ==
    /\ page = "Recommendations" /\ run.script = "Recommendations"
    /\ page' = "Risk_Assessment"
    /\ widgets' = WidgetDefaults
    /\ run' = NoRun
    /\ UNCHANGED <<model, explainer, session_state, predicted_from,
                   cache_resource, joblib_loads, history,
                   artifact_readable, feutils>>

\* a link of the navbar (a plain <a href>): the browser loads the page afresh,
\* which starts a new session of the same process
OpenPage(p) ==
    /\ page' = p
    /\ widgets' = WidgetDefaults
    /\ session_state' = <<>>
    /\ predicted_from' = <<>>
    /\ run' = NoRun
    /\ UNCHANGED <<model, explainer, cache_resource, joblib_loads, history,
                   artifact_readable, feutils>>

Next ==
    \/ \E button \in BOOLEAN : Risk_Assessment_py(button)
    \/ Results_py
    \/ BackToAssessment
    \/ GoToRecommendations
    \/ Recommendations_py
    \/ Reassess
    \/ \E p \in Pages : OpenPage(p)

Spec == Init /\ [][Next]_vars

(***************************************************************************)
(* Repeated submissions: the form starts empty and the user fills it in,   *)
(* again and again, in one session or after opening a new one              *)
(***************************************************************************)
InitSession ==
    /\ model \in 0..(ClfVariants - 1)
    /\ explainer = <<>>
    /\ widgets = WidgetDefaults
    /\ session_state = <<>>
    /\ page = "Risk_Assessment"
    /\ run = Ran("Risk_Assessment")
    /\ predicted_from = <<>>
    /\ cache_resource = {"Risk_Assessment.load_model"}
    /\ joblib_loads = 1
    /\ history = <<>>
    /\ artifact_readable = TRUE
    /\ feutils = NoCall

\* the user sets the widgets of the form; Streamlit reruns the script, which
\* draws them with their new values
FillForm(form) ==
    /\ page = "Risk_Assessment" /\ FormOnScreen
    /\ Len(history) < MaxSubmissions
    /\ widgets' = form
    /\ run' = Ran("Risk_Assessment")
    /\ cache_resource' = cache_resource \cup {"Risk_Assessment.load_model"}
    /\ joblib_loads' = IF cache_miss(cache_resource, "Risk_Assessment.load_model")
                       THEN joblib_loads + 1 ELSE joblib_loads
    /\ UNCHANGED <<model, explainer, session_state, page, predicted_from, history,
                   artifact_readable, feutils>>

NextSession ==
    \/ \E form \in SessionForms : FillForm(form)
    \/ \E button \in BOOLEAN : Risk_Assessment_py(button)
    \/ Results_py
    \/ BackToAssessment
    \/ GoToRecommendations
    \/ Recommendations_py
    \/ Reassess
    \/ \E p \in Pages : OpenPage(p)

SpecSession == InitSession /\ [][NextSession]_vars

(***************************************************************************)
(* The two encoders, given any value: the handler of Risk_Assessment.py    *)
(* with the widgets holding it, and Results.py with a user_data holding it *)
(***************************************************************************)
OFF_TABLE == "Unknown"

EncoderInputs ==
    [age : {45}, avg_glucose_level : {Rat(110, 1)},
     gender : (gender_options \ {PLACEHOLDER}) \cup {OFF_TABLE},
     ever_married : (ever_married_options \ {PLACEHOLDER}) \cup {OFF_TABLE},
     work_type : (work_type_options \ {PLACEHOLDER}) \cup {OFF_TABLE},
     hypertension : (hypertension_options \ {PLACEHOLDER}) \cup {OFF_TABLE},
     heart_disease : (heart_disease_options \ {PLACEHOLDER}) \cup {OFF_TABLE},
     smoking_status : (smoking_status_options \ {PLACEHOLDER}) \cup {OFF_TABLE}]

InitEncoders ==
    /\ model \in 0..(ClfVariants - 1)
    /\ explainer = <<>>
    /\ predicted_from = <<>>
    /\ cache_resource = {"Risk_Assessment.load_model"}
    /\ joblib_loads = 1
    /\ history = <<>>
    /\ artifact_readable = TRUE
    /\ feutils = NoCall
    /\ \E input \in EncoderInputs :
          \/ /\ page = "Risk_Assessment"
             /\ widgets = [f \in DOMAIN input \cup {"consent"} |->
                              IF f = "consent" THEN TRUE ELSE input[f]]
             /\ session_state = <<>>
             /\ run = Ran("Risk_Assessment")
          \/ /\ page = "Results"
             /\ widgets = WidgetDefaults
             /\ session_state = save_session(<<>>, input, Rat(3, 10))
             /\ run = NoRun

NextEncoders ==
    \/ \E button \in BOOLEAN : Risk_Assessment_py(button)
    \/ Results_py

SpecEncoders == InitEncoders /\ [][NextEncoders]_vars

(***************************************************************************)
(* The process from its start, with best_gb_model.pkl readable or not, and *)
(* the file removed or put back while the process runs                     *)
(***************************************************************************)
InitArtifact ==
    /\ model \in 0..(ClfVariants - 1)
    /\ explainer = <<>>
    /\ widgets = WidgetDefaults
    /\ session_state = <<>>
    /\ page \in Pages
    /\ run = NoRun
    /\ predicted_from = <<>>
    /\ cache_resource = {}
    /\ joblib_loads = 0
    /\ history = <<>>
    /\ artifact_readable \in BOOLEAN
    /\ feutils = NoCall

\* best_gb_model.pkl is deleted from the pages directory, or put back
ArtifactChanges ==
    /\ artifact_readable' = ~artifact_readable
    /\ UNCHANGED <<model, explainer, widgets, session_state, page, run, predicted_from,
                   cache_resource, joblib_loads, history, feutils>>

NextArtifact ==
    \/ ArtifactChanges
    \/ \E form \in SessionForms : FillForm(form)
    \/ \E button \in BOOLEAN : Risk_Assessment_py(button)
    \/ Results_py
    \/ BackToAssessment
    \/ GoToRecommendations
    \/ Recommendations_py
    \/ Reassess
    \/ \E p \in Pages : OpenPage(p)

SpecArtifact == InitArtifact /\ [][NextArtifact]_vars

(***************************************************************************)
(* Lines 105-108 of Risk_Assessment.py given a raw row of any length       *)
(***************************************************************************)
\* Bound of the model: the longest raw row that is tried
MaxRawLen == 10

RECURSIVE Rows(_)
Rows(n) == IF n = 0 THEN {<<>>}
           ELSE {Append(r, c) : r \in Rows(n - 1), c \in {Zero, Rat(1, 1)}}

\* age, glucose and n - 2 codes, for every n from 2 to MaxRawLen
RawVectors ==
    UNION { { <<Rat(a, 1), g>> \o r : a \in Ages, g \in Glucoses, r \in Rows(n - 2) } :
            n \in 2..MaxRawLen }

InitPredict ==
    /\ model \in 0..(ClfVariants - 1)
    /\ explainer = <<>>
    /\ widgets = WidgetDefaults
    /\ session_state = <<>>
    /\ page = "Risk_Assessment"
    /\ \E raw \in RawVectors : run = [Ran("predict") EXCEPT !.raw = raw]
    /\ predicted_from = <<>>
    /\ cache_resource = {"Risk_Assessment.load_model"}
    /\ joblib_loads = 1
    /\ history = <<>>
    /\ artifact_readable = TRUE
    /\ feutils = NoCall

\* the three statements applied to the row
Predict ==
    /\ run.script = "predict" /\ run.X_poly = <<>>
    /\ LET p == predict(model, run.raw)
       IN  run' = [run EXCEPT !.X_poly = p.X_poly, !.X_scaled = p.X_scaled,
                              !.exception = p.exception,
                              !.classifier_calls = p.classifier_calls, !.prob = p.prob]
    /\ UNCHANGED <<model, explainer, widgets, session_state, page, predicted_from,
                   cache_resource, joblib_loads, history, artifact_readable, feutils>>

NextPredict == Predict

SpecPredict == InitPredict /\ [][NextPredict]_vars

(***************************************************************************)
(* engineer_feats called on a table of the stroke dataset's columns        *)
(***************************************************************************)
\* Bound of the model: the most rows a table has
MaxRows == 2

\* the column layouts that are tried
Schemas ==
    { <<"age", "avg_glucose_level">>,
      <<"avg_glucose_level", "age">>,
      <<"age", "hypertension", "avg_glucose_level">>,
      <<"heart_disease", "avg_glucose_level", "age">> }

ValuesOf(name) ==
    CASE name = "age" -> {Rat(a, 1) : a \in Ages}
      [] name = "avg_glucose_level" -> Glucoses
      [] OTHER -> {Zero, Rat(1, 1)}

RECURSIVE TablesOf(_, _)
TablesOf(schema, n) ==
    IF schema = <<>> THEN {<<>>}
    ELSE { << <<Head(schema), values>> >> \o rest :
              values \in [1..n -> ValuesOf(Head(schema))],
              rest \in TablesOf(Tail(schema), n) }

Tables == UNION { TablesOf(schema, n) : schema \in Schemas, n \in 1..MaxRows }

InitFeats ==
    /\ model \in 0..(ClfVariants - 1)
    /\ explainer = <<>>
    /\ widgets = WidgetDefaults
    /\ session_state = <<>>
    /\ page = "Risk_Assessment"
    /\ run = NoRun
    /\ predicted_from = <<>>
    /\ cache_resource = {}
    /\ joblib_loads = 0
    /\ history = <<>>
    /\ artifact_readable = TRUE
    /\ \E df \in Tables : feutils = [given |-> df, df |-> df, returned |-> <<>>]

\* returned = engineer_feats(df)
call_engineer_feats ==
    /\ feutils.given # <<>> /\ feutils.returned = <<>>
    /\ LET r == engineer_feats(feutils.df)
       IN  feutils' = [feutils EXCEPT !.df = r.caller, !.returned = r.returned]
    /\ UNCHANGED <<model, explainer, widgets, session_state, page, run, predicted_from,
                   cache_resource, joblib_loads, history, artifact_readable>>

NextFeats == call_engineer_feats

SpecFeats == InitFeats /\ [][NextFeats]_vars

(***************************************************************************)
(* The encoding tables of the design document (section 4.1)                *)
(***************************************************************************)
ENCODING_TABLE ==
    [heart_disease |-> ("Yes" :> 1) @@ ("No" :> 0),
     hypertension |-> ("Yes" :> 1) @@ ("No" :> 0),
     ever_married |-> ("Yes" :> 1) @@ ("No" :> 0),
     smoking_status |-> ("formerly smoked" :> 0) @@ ("smokes" :> 2) @@ ("never smoked" :> 1),
     work_type |-> ("Govt_job" :> 0) @@ ("Never_worked" :> 1) @@ ("Private" :> 2)
                      @@ ("Self-employed" :> 3),
     gender |-> ("Female" :> 0) @@ ("Male" :> 1)]

\* the position of each categorical field in the feature vector
POSITION ==
    [heart_disease |-> 3, hypertension |-> 4, ever_married |-> 5,
     smoking_status |-> 6, work_type |-> 7, gender |-> 8]

Submitted == run.script = "Risk_Assessment" /\ run.raw # <<>>
ResultsShown == run.script = "Results" /\ run.contrib # <<>>
BandShown == run.script = "Recommendations" /\ run.band # ""
AbsSum8(shap_vals) == fsum([i \in 1..8 |-> fabs(shap_vals[i])])
Zeros8 == [i \in 1..8 |-> Zero]

(***************************************************************************)
(* C1: a press of "Calculate Stroke Risk" while any of the six categorical *)
(* fields still holds "Select option" does not run the pipeline: the run   *)
(* ends with a validation error and without an exception, builds no raw,   *)
(* expanded or standardized vector, does not call the classifier, writes   *)
(* nothing to the session and stays on the Risk Assessment page.           *)
(***************************************************************************)
C1_PlaceholderBlocksPipeline ==
    [][ (run'.script = "Risk_Assessment" /\ run'.button
           /\ \E f \in CategoricalFields : widgets[f] = PLACEHOLDER)
        => /\ run'.error \in {CONSENT_ERROR, FIELDS_ERROR}
           /\ run'.exception = ""
           /\ run'.raw = <<>> /\ run'.X_poly = <<>> /\ run'.X_scaled = <<>>
           /\ run'.classifier_calls = 0 /\ run'.prob = <<>>
           /\ session_state' = session_state
           /\ predicted_from' = predicted_from
           /\ page' = "Risk_Assessment" ]_vars

\* consent given, exactly one field (smoking_status) unresolved, the press refused
C1_Witness ==
    /\ run.script = "Risk_Assessment" /\ run.button
    /\ widgets.consent
    /\ widgets.smoking_status = PLACEHOLDER
    /\ \A f \in CategoricalFields \ {"smoking_status"} : widgets[f] # PLACEHOLDER
    /\ run.error = FIELDS_ERROR
    /\ page = "Risk_Assessment"

(***************************************************************************)
(* C2: for every categorical field and value, the code the submission      *)
(* puts in the feature vector is the code of the design document's table.  *)
(***************************************************************************)
C2_SubmissionUsesEncodingTable ==
    Submitted =>
        \A f \in CategoricalFields :
            run.raw[POSITION[f]] = Rat(ENCODING_TABLE[f][widgets[f]], 1)

(***************************************************************************)
(* C3: the standardized vector Results.py hands to the explainer is the    *)
(* vector the classifier was given for the stored probability.             *)
(***************************************************************************)
C3_ExplainerGetsClassifierVector ==
    (run.script = "Results" /\ run.X_scaled # <<>>) => run.X_scaled = predicted_from

(***************************************************************************)
(* C4: the vector built on submission has 11 elements in the order age,    *)
(* glucose, then the codes of heart_disease, hypertension, ever_married,   *)
(* smoking_status, work_type, gender (each as the page's own map gives     *)
(* it), then age^2, age*glucose, glucose^2; its first 8 are the raw ones.  *)
(***************************************************************************)
C4_FeatureVectorOrder ==
    Submitted =>
        LET w == widgets
            g == w.avg_glucose_level
        IN  /\ Len(run.raw) = 8
            /\ Len(run.X_poly) = 11
            /\ SubSeq(run.X_poly, 1, 8) = run.raw
            /\ run.X_poly[1] = <<w.age, 1>>
            /\ run.X_poly[2] = g
            /\ run.X_poly[3] = <<heart_map[w.heart_disease], 1>>
            /\ run.X_poly[4] = <<htn_map[w.hypertension], 1>>
            /\ run.X_poly[5] = <<married_map[w.ever_married], 1>>
            /\ run.X_poly[6] = <<smoke_map[w.smoking_status], 1>>
            /\ run.X_poly[7] = <<work_map[w.work_type], 1>>
            /\ run.X_poly[8] = <<gender_map[w.gender], 1>>
            /\ run.X_poly[9] = <<w.age * w.age, 1>>
            /\ run.X_poly[10] = Rat(w.age * g[1], g[2])
            /\ run.X_poly[11] = Rat(g[1] * g[1], g[2] * g[2])

\* a submission whose smoking and work codes differ, so that their order shows
C4_Witness ==
    /\ Submitted
    /\ widgets.age = 45 /\ widgets.avg_glucose_level = Rat(110, 1)
    /\ widgets.smoking_status = "smokes" /\ widgets.work_type = "Self-employed"
    /\ run.X_poly[6] = <<2, 1>> /\ run.X_poly[7] = <<1, 1>>

(***************************************************************************)
(* C5: add_poly (of either page) appends exactly three values to the 8 raw *)
(* ones: age*age, age*glucose, glucose*glucose, in this order, computed    *)
(* from positions 1 and 2 of the row it is given.                          *)
(***************************************************************************)
C5_AddPolyAppendsSquares ==
    (run.script \in {"Risk_Assessment", "Results"} /\ run.X_poly # <<>>) =>
        LET a == run.raw[1]
            g == run.raw[2]
        IN  /\ Len(run.X_poly) = Len(run.raw) + 3
            /\ \A i \in 1..Len(run.raw) : run.X_poly[i] = run.raw[i]
            /\ run.X_poly[9] = Rat(a[1] * a[1], a[2] * a[2])
            /\ run.X_poly[10] = Rat(a[1] * g[1], a[2] * g[2])
            /\ run.X_poly[11] = Rat(g[1] * g[1], g[2] * g[2])

\* Results.py has expanded the row of age 45, glucose 110.0
C5_Witness ==
    /\ run.script = "Results"
    /\ Len(run.X_poly) = 11
    /\ run.X_poly[1] = <<45, 1>> /\ run.X_poly[2] = <<110, 1>>
    /\ run.X_poly[9] = <<2025, 1>> /\ run.X_poly[10] = <<4950, 1>>
    /\ run.X_poly[11] = <<12100, 1>>

(***************************************************************************)
(* C6: on the Results page, when the stored probability is not 0 and the   *)
(* sum of the absolute attributions of the first 8 positions is not 0, the *)
(* 8 contributions sum to the probability and the 8 bars to it times 100.  *)
(***************************************************************************)
C6_ContributionsSumToProbability ==
    (ResultsShown /\ run.prob # Zero /\ AbsSum8(run.shap_vals) # Zero) =>
        /\ Len(run.contrib) = 8 /\ Len(run.bar_y) = 8
        /\ fsum(run.contrib) = run.prob
        /\ fsum(run.bar_y) = Rat(run.prob[1] * 100, run.prob[2])

\* a chart for a probability strictly between 0 and 1 and mixed-sign attributions
C6_Witness ==
    /\ ResultsShown
    /\ run.prob = Rat(2999, 10000)
    /\ AbsSum8(run.shap_vals) # Zero
    /\ \E i \in 1..8 : run.shap_vals[i][1] < 0
    /\ fsum(run.contrib) = Rat(2999, 10000)

(***************************************************************************)
(* C7: when the stored probability is exactly 0, the 8 contributions on    *)
(* the Results page are exactly 0, whatever the attributions are.          *)
(***************************************************************************)
C7_ZeroProbabilityGivesZeroContributions ==
    (ResultsShown /\ run.prob = Zero) => run.contrib = Zeros8

(***************************************************************************)
(* C8: when the absolute attributions of the first 8 positions sum to 0    *)
(* and the stored probability is not 0, the Results page reports an error  *)
(* and draws no contribution chart.                                        *)
(***************************************************************************)
C8_ZeroAttributionIsReported ==
    (run.script = "Results" /\ run.shap_vals # <<>>
       /\ AbsSum8(run.shap_vals) = Zero /\ run.prob # Zero)
    => /\ run.error # "" \/ run.exception # ""
       /\ run.bar_y = <<>>

(***************************************************************************)
(* C9: the Recommendations page shows exactly one band for the stored      *)
(* probability p: Zero iff p*100 = 0, Low iff 0 < p*100 < 30, Moderate iff *)
(* 30 <= p*100 < 70, High iff p*100 >= 70; so 0.2999 is Low, 0.30 is       *)
(* Moderate, 0.6999 is Moderate, 0.70 is High; the band's recommendation   *)
(* block is not empty.                                                     *)
(***************************************************************************)
C9_BandThresholds ==
    (run.script = "Recommendations" /\ run.prob # <<>>) =>
        LET n == run.prob[1] * 100
            d == run.prob[2]
        IN  /\ run.band \in {"Zero", "Low", "Moderate", "High"}
            /\ (run.band = "Zero") <=> (n = 0)
            /\ (run.band = "Low") <=> (0 < n /\ n < 30 * d)
            /\ (run.band = "Moderate") <=> (30 * d <= n /\ n < 70 * d)
            /\ (run.band = "High") <=> (n >= 70 * d)
            /\ (run.prob = <<2999, 10000>>) => (run.band = "Low")
            /\ (run.prob = <<3, 10>>) => (run.band = "Moderate")
            /\ (run.prob = <<6999, 10000>>) => (run.band = "Moderate")
            /\ (run.prob = <<7, 10>>) => (run.band = "High")
            /\ run.recs = recommendation_block(run.band)
            /\ Len(run.recs) >= 2

\* the boundary 0.30 has been shown as Moderate
C9_Witness ==
    /\ run.script = "Recommendations"
    /\ run.prob = <<3, 10>>
    /\ run.band = "Moderate"
    /\ Len(run.recs) = 4

(***************************************************************************)
(* C10: the band shown depends on the probability only and is monotonic:   *)
(* no smaller probability has a more severe band than the one shown, and   *)
(* no larger one a less severe band (Zero < Low < Moderate < High).        *)
(***************************************************************************)
Severity == ("Zero" :> 0) @@ ("Low" :> 1) @@ ("Moderate" :> 2) @@ ("High" :> 3)

BandOf(p) == recommendation_band(fmul(p, Rat(100, 1)))

C10_BandMonotonic ==
    BandShown =>
        /\ run.band = BandOf(session_state["prediction_prob"])
        /\ \A i \in 1..Len(Probabilities) :
              LET q == Probabilities[i]
              IN  /\ fle(q, run.prob) => Severity[BandOf(q)] <= Severity[run.band]
                  /\ fle(run.prob, q) => Severity[run.band] <= Severity[BandOf(q)]

\* a band strictly inside the ordering is on screen: probabilities lie on both sides
C10_Witness ==
    /\ BandShown
    /\ run.prob = <<6999, 10000>>
    /\ run.band = "Moderate"
    /\ \E i, j \in 1..Len(Probabilities) :
          /\ flt(Probabilities[i], run.prob) /\ BandOf(Probabilities[i]) = "Low"
          /\ flt(run.prob, Probabilities[j]) /\ BandOf(Probabilities[j]) = "High"

(***************************************************************************)
(* C11: the submission of age 45, glucose 110.0, heart_disease No,         *)
(* hypertension No, ever_married Yes, never smoked, Private, Female builds *)
(* the vector [45, 110, 0, 0, 1, code(never smoked), code(Private), 0,     *)
(* 2025, 4950, 12100], the codes being those of the design document's      *)
(* table; its 8th element, gender, is 0.                                   *)
(***************************************************************************)
C11_ScenarioVector ==
    (Submitted /\ widgets = SCENARIO) =>
        /\ run.X_poly =
              << <<45, 1>>, <<110, 1>>, <<0, 1>>, <<0, 1>>, <<1, 1>>,
                 <<ENCODING_TABLE.smoking_status["never smoked"], 1>>,
                 <<ENCODING_TABLE.work_type["Private"], 1>>,
                 <<0, 1>>,
                 <<2025, 1>>, <<4950, 1>>, <<12100, 1>> >>
        /\ run.X_poly[8] = <<0, 1>>

(***************************************************************************)
(* C15: every user_data a successful submission stores is fully populated  *)
(* and in range: age is an integer in 18..100, avg_glucose_level is in     *)
(* [55.0, 300.0], and each of the six categorical fields holds one of its  *)
(* enumerated values, never the placeholder "Select option".               *)
(***************************************************************************)
Enumerated(f) ==
    CASE f = "gender" -> gender_options \ {PLACEHOLDER}
      [] f = "ever_married" -> ever_married_options \ {PLACEHOLDER}
      [] f = "work_type" -> work_type_options \ {PLACEHOLDER}
      [] f = "hypertension" -> hypertension_options \ {PLACEHOLDER}
      [] f = "heart_disease" -> heart_disease_options \ {PLACEHOLDER}
      [] f = "smoking_status" -> smoking_status_options \ {PLACEHOLDER}

InRange(UD) ==
    /\ UD.age \in 18..100
    /\ fle(Rat(55, 1), UD.avg_glucose_level)
    /\ fle(UD.avg_glucose_level, Rat(300, 1))
    /\ \A f \in CategoricalFields : UD[f] \in Enumerated(f) /\ UD[f] # PLACEHOLDER

C15_StoredInputInRange ==
    Has("user_data") => InRange(session_state["user_data"])

\* a submission at the upper end of both ranges has been stored
C15_Witness ==
    /\ Submitted
    /\ session_state["user_data"].age = 100
    /\ session_state["user_data"].avg_glucose_level = Rat(300, 1)

(***************************************************************************)
(* C18: standardization can be undone with the same constants: each of the *)
(* 11 scale constants is nonzero, and for every expanded vector the        *)
(* pipeline standardizes, z[i] * scale[i] + mean[i] is x[i] again at every *)
(* position i (the values taken exactly, without float64's rounding).      *)
(***************************************************************************)
unstandardize(Z, mean, scale) ==
    [i \in 1..Len(Z) |-> fadd(fmul(Z[i], scale[i]), mean[i])]

C18_StandardizationInvertible ==
    /\ Len(SCALER_SCALE) = 11
    /\ \A i \in 1..11 : IsFinite(SCALER_SCALE[i]) /\ SCALER_SCALE[i] # Zero
    /\ (run.script = "Risk_Assessment" /\ run.X_scaled # <<>>) =>
          /\ Len(run.X_poly) = 11
          /\ unstandardize(run.X_scaled, SCALER_MEAN, SCALER_SCALE) = run.X_poly

\* a vector with a value below its mean (age) and one above (glucose) went through
C18_Witness ==
    /\ Submitted
    /\ flt(run.X_scaled[1], Zero)
    /\ flt(Zero, run.X_scaled[2])
    /\ run.X_poly[1] = Rat(18, 1)
    /\ run.X_poly[2] = Rat(300, 1)

(***************************************************************************)
(* C19: the vector Results.py rebuilds from the stored user_data has age   *)
(* and glucose first and then, at the design document's positions, the     *)
(* codes of the design document's tables: Yes 1, No 0; formerly smoked 0,  *)
(* never smoked 1, smokes 2; Govt_job 0, Never_worked 1, Private 2,        *)
(* Self-employed 3; Female 0, Male 1.                                      *)
(***************************************************************************)
C19_ResultsUsesEncodingTable ==
    ResultsShown =>
        LET UD == session_state["user_data"]
        IN  /\ Len(run.raw) = 8
            /\ run.raw[1] = Rat(UD.age, 1)
            /\ run.raw[2] = UD.avg_glucose_level
            /\ \A f \in CategoricalFields :
                  run.raw[POSITION[f]] = Rat(ENCODING_TABLE[f][UD[f]], 1)

\* the rebuilt vector of a married woman in private work who never smoked
C19_Witness ==
    /\ ResultsShown
    /\ session_state["user_data"].gender = "Female"
    /\ session_state["user_data"].work_type = "Private"
    /\ session_state["user_data"].smoking_status = "never smoked"
    /\ session_state["user_data"].ever_married = "Yes"
    /\ SubSeq(run.raw, 3, 8) = << Zero, Zero, Rat(1, 1), Rat(1, 1), Rat(2, 1), Zero >>

(***************************************************************************)
(* C20: both pages standardize position by position, z[i] = (x[i] -        *)
(* mean[i]) / scale[i], and the mean and scale tables of Risk_Assessment.py *)
(* and of Results.py have 11 entries each and are equal entry by entry.     *)
(***************************************************************************)
C20_SameConstantsElementwise ==
    /\ Len(SCALER_MEAN) = 11 /\ Len(SCALER_SCALE) = 11
    /\ Len(SCALER_MEAN_Results) = 11 /\ Len(SCALER_SCALE_Results) = 11
    /\ \A i \in 1..11 : /\ SCALER_MEAN[i] = SCALER_MEAN_Results[i]
                        /\ SCALER_SCALE[i] = SCALER_SCALE_Results[i]
    /\ (run.script = "Risk_Assessment" /\ run.X_scaled # <<>>) =>
          /\ Len(run.X_scaled) = 11
          /\ \A i \in 1..11 :
                run.X_scaled[i] = fdiv(fsub(run.X_poly[i], SCALER_MEAN[i]), SCALER_SCALE[i])
    /\ (run.script = "Results" /\ run.X_scaled # <<>>) =>
          /\ Len(run.X_scaled) = 11
          /\ \A i \in 1..11 :
                run.X_scaled[i] =
                    fdiv(fsub(run.X_poly[i], SCALER_MEAN_Results[i]), SCALER_SCALE_Results[i])

\* Results.py has standardized a vector after Risk_Assessment.py did
C20_Witness ==
    /\ ResultsShown
    /\ Len(run.X_scaled) = 11
    /\ predicted_from # <<>>
    /\ run.X_scaled[9] = predicted_from[9]

(***************************************************************************)
(* C12: the pipeline is deterministic.  Any two submissions of the same    *)
(* input, in the same session or in different ones and whatever was        *)
(* submitted between them, give the same expanded vector, the same         *)
(* standardized vector, the same stored probability and, once Results.py   *)
(* has shown them, the same contributions.                                 *)
(***************************************************************************)
C12_SameInputSameResult ==
    \A i, j \in DOMAIN history :
        history[i].input = history[j].input =>
            /\ history[i].X_poly = history[j].X_poly
            /\ history[i].X_scaled = history[j].X_scaled
            /\ history[i].prob = history[j].prob
            /\ (history[i].contrib # <<>> /\ history[j].contrib # <<>>) =>
                  /\ history[i].contrib = history[j].contrib
                  /\ history[i].shown = history[j].shown

\* the scenario, then the second patient on top of it in the same session, then
\* the scenario again, each with its result shown
C12_Witness ==
    /\ Len(history) = 3
    /\ history[1].input = history[3].input
    /\ history[2].input # history[1].input
    /\ history[2].resubmission /\ history[3].resubmission
    /\ history[2].prob # history[1].prob
    /\ \A i \in 1..3 : history[i].contrib # <<>>

(***************************************************************************)
(* C14: a successful submission overwrites both user_data and              *)
(* prediction_prob with its own values, so the stored prediction_prob is   *)
(* always the classifier's output for the stored user_data, the latest     *)
(* successful input, whatever was submitted before.                        *)
(***************************************************************************)
C14_StoredPairBelongsTogether ==
    /\ (Has("user_data") /\ Has("prediction_prob")) =>
          session_state["prediction_prob"] =
              predict_proba(model, standardize(add_poly(raw_Risk_Assessment(
                                session_state["user_data"])), SCALER_MEAN, SCALER_SCALE))
    /\ Has("user_data") <=> Has("prediction_prob")
    /\ Submitted =>
          /\ Has("user_data") /\ Has("prediction_prob")
          /\ session_state["user_data"] = user_data_of(widgets)
          /\ session_state["prediction_prob"] = run.prob

\* a submission has just replaced the different result of an earlier one
C14_Witness ==
    /\ Submitted
    /\ Len(history) >= 2
    /\ history[Len(history)].resubmission
    /\ history[Len(history)].input = session_state["user_data"]
    /\ history[Len(history) - 1].input # session_state["user_data"]
    /\ history[Len(history) - 1].prob # session_state["prediction_prob"]

(***************************************************************************)
(* C16: best_gb_model.pkl is read from storage at most once in the life of *)
(* the process, whichever pages are visited and however many sessions and  *)
(* submissions there are.                                                  *)
(***************************************************************************)
C16_ArtifactLoadedAtMostOnce ==
    joblib_loads <= 1

(***************************************************************************)
(* C17: a successful submission has computed the probability and stored    *)
(* both user_data and prediction_prob when it navigates to the Results     *)
(* page, and the run of Results.py that follows finds both keys and shows  *)
(* the probability of that submission, not an earlier one.                 *)
(***************************************************************************)
C17_ResultsShowsThisSubmission ==
    [][ (run.script = "Risk_Assessment" /\ run.classifier_calls = 1) =>
           /\ page = "Results"
           /\ Has("user_data") /\ Has("prediction_prob")
           /\ session_state["user_data"] = user_data_of(widgets)
           /\ session_state["prediction_prob"] = run.prob
           /\ run'.script = "Results" =>
                 /\ run'.warning = ""
                 /\ run'.prob = run.prob
                 /\ run'.gauge = fmul(run.prob, Rat(100, 1)) ]_vars

\* Results.py shows the result of a resubmission, which differs from the
\* result the session held before
C17_Witness ==
    /\ ResultsShown
    /\ Len(history) >= 2
    /\ history[Len(history)].resubmission
    /\ history[Len(history)].input = session_state["user_data"]
    /\ history[Len(history)].shown = run.prob
    /\ history[Len(history) - 1].prob # run.prob

(***************************************************************************)
(* C13: in both encoders a categorical value that is no key of its field's *)
(* table ends the run with an explicit failure and no vector; it is never  *)
(* given a default code.  This includes heart_disease, hypertension and    *)
(* ever_married.                                                           *)
(***************************************************************************)
OffTable(UD) == \E f \in CategoricalFields : UD[f] \notin DOMAIN ENCODING_TABLE[f]

C13_OffTableValueFails ==
    /\ (run.script = "Risk_Assessment" /\ run.button /\ OffTable(widgets)) =>
          /\ run.exception = "KeyError" \/ run.error # ""
          /\ run.raw = <<>>
    /\ (run.script = "Results" /\ run.warning = "" /\ OffTable(session_state["user_data"])) =>
          /\ run.exception = "KeyError"
          /\ run.raw = <<>>

(***************************************************************************)
(* C21: a press that is rejected, because the consent box is unchecked or  *)
(* a categorical field still holds the placeholder, leaves user_data and   *)
(* prediction_prob as they were: stored exactly as before if an earlier    *)
(* submission succeeded, absent if none did.                               *)
(***************************************************************************)
C21_RejectedPressKeepsSession ==
    [][ (run'.script = "Risk_Assessment" /\ run'.button
           /\ (~widgets.consent \/ \E f \in CategoricalFields : widgets[f] = PLACEHOLDER))
        => /\ session_state' = session_state
           /\ run'.error # ""
           /\ page' = "Risk_Assessment" ]_vars

\* a press without consent was rejected in a session that holds the result of
\* an earlier submission
C21_Witness ==
    /\ run.script = "Risk_Assessment" /\ run.button
    /\ run.error = CONSENT_ERROR
    /\ Has("user_data") /\ Has("prediction_prob")
    /\ history # <<>>
    /\ session_state["user_data"] = history[Len(history)].input
    /\ session_state["prediction_prob"] = history[Len(history)].prob

(***************************************************************************)
(* C26: consent is tested first and gates the pipeline.  A press with the  *)
(* consent box unchecked never calls the classifier and stores nothing,    *)
(* whatever the fields hold, and reports the consent error alone even when *)
(* a field is unresolved too.                                              *)
(***************************************************************************)
C26_ConsentCheckedFirst ==
    [][ (run'.script = "Risk_Assessment" /\ run'.button /\ ~widgets.consent)
        => /\ run'.error = CONSENT_ERROR
           /\ run'.exception = ""
           /\ run'.raw = <<>> /\ run'.X_scaled = <<>>
           /\ run'.classifier_calls = 0 /\ run'.prob = <<>>
           /\ session_state' = session_state
           /\ predicted_from' = predicted_from
           /\ page' = "Risk_Assessment" ]_vars

\* consent unchecked and two fields unresolved: the consent error is shown
C26_Witness ==
    /\ run.script = "Risk_Assessment" /\ run.button
    /\ ~widgets.consent
    /\ widgets.gender = PLACEHOLDER /\ widgets.work_type = PLACEHOLDER
    /\ run.error = CONSENT_ERROR
    /\ session_state = <<>>

(***************************************************************************)
(* C22: before a submission has succeeded in the session nothing of a      *)
(* result is on screen: no percentage, no contribution chart, no gauge, no *)
(* band.  With prediction_prob absent Results.py shows its warning and     *)
(* does not call the explainer, and Recommendations.py shows its warning   *)
(* and stops before a band is chosen.                                      *)
(***************************************************************************)
C22_NothingShownBeforeSubmission ==
    ~Has("prediction_prob") =>
        /\ run.pct = <<>> /\ run.gauge = <<>>
        /\ run.shap_vals = <<>> /\ run.contrib = <<>>
        /\ run.bar_x = <<>> /\ run.bar_y = <<>>
        /\ run.band = "" /\ run.recs = <<>>
        /\ run.script = "Results" => run.warning = NO_INPUT_WARNING
        /\ run.script = "Recommendations" => run.warning = NO_SCORE_WARNING

\* Results.py has run in a new session, opened after a session with a result:
\* the explainer is built, and the warning is all the page shows
C22_Witness ==
    /\ ~Has("prediction_prob")
    /\ history # <<>>
    /\ explainer # <<>>
    /\ run.script = "Results"
    /\ run.warning = NO_INPUT_WARNING

(***************************************************************************)
(* C27: in every state of a session user_data is stored if and only if     *)
(* prediction_prob is: both are written by the same successful submission. *)
(* So the test of Results.py (both keys) and the test of                   *)
(* Recommendations.py (prediction_prob alone) always agree.                *)
(***************************************************************************)
C27_KeysStoredTogether ==
    /\ Has("user_data") <=> Has("prediction_prob")
    /\ (Has("user_data") /\ Has("prediction_prob"))
          <=> (session_get(session_state, "prediction_prob") # None)
    /\ Submitted => (Has("user_data") /\ Has("prediction_prob") /\ run.classifier_calls = 1)
    /\ run.script = "Results" => (run.warning = "" <=> Has("prediction_prob"))
    /\ run.script = "Recommendations" => (run.warning = "" <=> Has("user_data"))

\* both pages have passed their test in one session: the band is on screen
\* for the result Results.py showed
C27_Witness ==
    /\ BandShown
    /\ Has("user_data") /\ Has("prediction_prob")
    /\ history # <<>>
    /\ history[Len(history)].shown = run.prob

(***************************************************************************)
(* C25: for every age and glucose the form accepts, add_poly yields its    *)
(* three derived values and they stay within fixed bounds: age^2 in        *)
(* [324, 10000], age*glucose in [990, 30000], glucose^2 in [3025, 90000].  *)
(***************************************************************************)
Between(lo, x, hi) == fle(Rat(lo, 1), x) /\ fle(x, Rat(hi, 1))

C25_DerivedValuesBounded ==
    Submitted =>
        /\ Len(run.X_poly) = 11
        /\ \A i \in 9..11 : IsFinite(run.X_poly[i])
        /\ Between(324, run.X_poly[9], 10000)
        /\ Between(990, run.X_poly[10], 30000)
        /\ Between(3025, run.X_poly[11], 90000)
        /\ run.exception = ""

\* the largest age with the largest glucose: all three upper bounds are met
C25_Witness ==
    /\ Submitted
    /\ widgets.age = 100 /\ widgets.avg_glucose_level = Rat(300, 1)
    /\ run.X_poly[9] = Rat(10000, 1)
    /\ run.X_poly[10] = Rat(30000, 1)
    /\ run.X_poly[11] = Rat(90000, 1)

(***************************************************************************)
(* C28: the chart of Results.py has exactly 8 bars, labelled Age, Avg      *)
(* Glucose, Heart Disease, Hypertension, Ever Married, Smoking Status,     *)
(* Work Type, Gender; bar i is computed from attribution position i of the *)
(* vector Results.py built in that order, the three polynomial positions   *)
(* are left out, and every bar is at least 0 and at most probability*100.  *)
(***************************************************************************)
C28_ChartOfFirstEight ==
    ResultsShown =>
        /\ Len(run.shap_vals) = 11
        /\ Len(run.bar_x) = 8 /\ Len(run.bar_y) = 8
        /\ run.bar_x = << "Age", "Avg Glucose", "Heart Disease", "Hypertension",
                          "Ever Married", "Smoking Status", "Work Type", "Gender" >>
        /\ \A i \in 1..8 :
              /\ run.bar_y[i] =
                    fmul(fmul(fdiv(fabs(run.shap_vals[i]), AbsSum8(run.shap_vals)), run.prob),
                         Rat(100, 1))
              /\ fle(Zero, run.bar_y[i])
              /\ fle(run.bar_y[i], fmul(run.prob, Rat(100, 1)))

(***************************************************************************)
(* C23: a raw row of any length n other than 8 (n >= 2) is never silently  *)
(* standardized: its expanded row of length n + 3 does not fit the 11      *)
(* constants, the subtraction raises, and neither a standardized row nor a *)
(* probability comes out of it.                                            *)
(***************************************************************************)
C23_LengthMismatchFails ==
    (run.script = "predict" /\ run.X_poly # <<>> /\ Len(run.raw) # 8) =>
        /\ Len(run.X_poly) = Len(run.raw) + 3
        /\ run.exception = "ValueError"
        /\ run.X_scaled = <<>>
        /\ run.classifier_calls = 0
        /\ run.prob = <<>>

\* a row of 5 codes too few has been refused
C23_Witness ==
    /\ run.script = "predict"
    /\ Len(run.raw) = 3
    /\ Len(run.X_poly) = 6
    /\ run.exception = "ValueError"

(***************************************************************************)
(* C24: a page run whose load_model cannot read the artifact ends with an  *)
(* explicit error at the load: no other model is used, no submission is    *)
(* processed, and no probability is computed or written to the session.    *)
(***************************************************************************)
load_model_of(script) ==
    IF script = "Results" THEN "Results.load_model" ELSE "Risk_Assessment.load_model"

C24_LoadFailureStopsRun ==
    [][ (run'.script \in {"Risk_Assessment", "Results"}
           /\ ~artifact_readable
           /\ load_model_of(run'.script) \notin cache_resource)
        => /\ run'.exception = LOAD_ERROR
           /\ run'.raw = <<>> /\ run'.X_scaled = <<>>
           /\ run'.classifier_calls = 0
           /\ run'.prob = <<>> /\ run'.contrib = <<>> /\ run'.gauge = <<>>
           /\ session_state' = session_state
           /\ model' = model /\ explainer' = explainer
           /\ cache_resource' = cache_resource
           /\ page' = page ]_vars

\* Risk_Assessment.py has failed at its load in a process that never read the
\* artifact; the form is not on screen
C24_Witness ==
    /\ run.script = "Risk_Assessment"
    /\ run.exception = LOAD_ERROR
    /\ ~FormOnScreen
    /\ cache_resource = {}
    /\ joblib_loads = 0
    /\ session_state = <<>>

=============================================================================
